---- MODULE Spec2Model ----
(***************************************************************************)
(* A model of main.py, the parser of Nmap's greppable output (-oG).  A     *)
(* string is a sequence of one-character strings; the string operations    *)
(* of Python that main.py uses are defined here by what they compute.      *)
(***************************************************************************)
EXTENDS Integers, Sequences, FiniteSets, TLC

VARIABLES
    pc,               \* position in _parse_and_print
    nmap_out,         \* the contents of the file named by --nmap_out
    open_raises,      \* the exception of open() or of reading, "none" for none
    service_substr,   \* the value of --service_substr
    host_ports_lines, \* _parse_and_print: the selected lines
    n,                \* _get_hosts_with_ports: number of lines processed
    host,             \* _get_hosts_with_ports: locals of the last iteration
    ports_info,
    service_map,
    service_ports,
    output,           \* the list _build_output returned for that line
    host_with_ports,  \* the accumulated result list
    warned,           \* logging.warning was called
    printed           \* the lines written to standard output

vars == <<pc, nmap_out, open_raises, service_substr, host_ports_lines, n, host, ports_info,
          service_map, service_ports, output, host_with_ports, warned, printed>>

-----------------------------------------------------------------------------
(* Module constants of main.py *)

\* 'Host: '
HOST_PREFIX ==
    <<"H","o","s","t",":"," ">>

\* 'Ports: '
PORTS_PREFIX ==
    <<"P","o","r","t","s",":"," ">>

\* '\t'
FIELD_SEPARATOR ==
    <<"\t">>

\* ', '
PORT_INFO_SEPARATOR ==
    <<","," ">>

Digits ==
    {"0","1","2","3","4","5","6","7","8","9"}

\* An element of a pattern: kind "plus" is [set]+, "star" is [set]*, with neg
\* for a negated class; "lit" is one literal character; "opt" is an optional
\* literal character.  group names the capture ("" for none).
Class(kind, neg, set, group) ==
    [kind |-> kind, neg |-> neg, set |-> set, group |-> group]

\* The mutant of the pattern: the port group accepts any run of non-slashes.
PORT_INFO_REGEX_AnyPort ==
    << Class("plus", TRUE, {"/"}, "port"),         Class("lit", FALSE, {"/"}, ""),
       Class("star", TRUE, {"/"}, "state"),        Class("lit", FALSE, {"/"}, ""),
       Class("star", TRUE, {"/"}, "protocol"),     Class("lit", FALSE, {"/"}, ""),
       Class("star", TRUE, {"/"}, "owner"),        Class("lit", FALSE, {"/"}, ""),
       Class("star", TRUE, {"/"}, "service"),      Class("lit", FALSE, {"/"}, ""),
       Class("star", TRUE, {"/"}, "sun_rpc_info"), Class("lit", FALSE, {"/"}, ""),
       Class("star", TRUE, {"/"}, "version_info"), Class("lit", FALSE, {"/"}, ""),
       Class("star", TRUE, {"/"}, ""),             Class("opt", FALSE, {","}, "") >>

\* (?P<port>[0-9]+)/(?P<state>[^/]*)/(?P<protocol>[^/]*)/(?P<owner>[^/]*)/
\* (?P<service>[^/]*)/(?P<sun_rpc_info>[^/]*)/(?P<version_info>[^/]*)/[^/]*,?
PORT_INFO_REGEX ==
    << Class("plus", FALSE, Digits, "port"),       Class("lit", FALSE, {"/"}, ""),
       Class("star", TRUE, {"/"}, "state"),        Class("lit", FALSE, {"/"}, ""),
       Class("star", TRUE, {"/"}, "protocol"),     Class("lit", FALSE, {"/"}, ""),
       Class("star", TRUE, {"/"}, "owner"),        Class("lit", FALSE, {"/"}, ""),
       Class("star", TRUE, {"/"}, "service"),      Class("lit", FALSE, {"/"}, ""),
       Class("star", TRUE, {"/"}, "sun_rpc_info"), Class("lit", FALSE, {"/"}, ""),
       Class("star", TRUE, {"/"}, "version_info"), Class("lit", FALSE, {"/"}, ""),
       Class("star", TRUE, {"/"}, ""),             Class("opt", FALSE, {","}, "") >>

-----------------------------------------------------------------------------
(* Python's string operations, as main.py uses them *)

\* The characters str.split() without a separator splits on: every character
\* c with c.isspace().  A character that has no spelling in a string of this
\* language is written as its Python escape.
Whitespace ==
    { " ", "\t", "\n", "\r", "\f", "\\x0b", "\\x1c", "\\x1d", "\\x1e", "\\x1f",
      "\\x85", "\\xa0", "\\u1680", "\\u2000", "\\u2001", "\\u2002", "\\u2003",
      "\\u2004", "\\u2005", "\\u2006", "\\u2007", "\\u2008", "\\u2009", "\\u200a",
      "\\u2028", "\\u2029", "\\u202f", "\\u205f", "\\u3000" }

\* s[i:i+len(p)] == p
MatchesAt(s, p, i) ==
    /\ i >= 1
    /\ i + Len(p) - 1 <= Len(s)
    /\ \A k \in 1..Len(p) : s[i + k - 1] = p[k]

\* sub in s
contains(sub, s) ==
    \E i \in 1..(Len(s) + 1) : MatchesAt(s, sub, i)

\* s.startswith(p)
startswith(s, p) ==
    MatchesAt(s, p, 1)

\* The least element of a non-empty set of positions.
First(positions) ==
    CHOOSE i \in positions : \A j \in positions : i <= j

\* s.find(sep, b): the first position from b on where sep occurs, 0 for none.
find(s, sep, b) ==
    LET hits == { i \in b..(Len(s) - Len(sep) + 1) : MatchesAt(s, sep, i) }
    IN  IF hits = {} THEN 0 ELSE First(hits)

\* s.split(sep) with a non-empty separator: every piece, the empty ones too;
\* the scan goes on behind each occurrence of the separator.
RECURSIVE split_scan(_, _, _)
split_scan(s, sep, b) ==
    LET i == find(s, sep, b)
    IN  IF i = 0
        THEN << SubSeq(s, b, Len(s)) >>
        ELSE << SubSeq(s, b, i - 1) >> \o split_scan(s, sep, i + Len(sep))

split(s, sep) ==
    split_scan(s, sep, 1)

\* s.split(): the maximal runs of non-whitespace characters, none empty.
RECURSIVE split_ws_scan(_, _)
split_ws_scan(s, b) ==
    LET starts == { i \in b..Len(s) : s[i] \notin Whitespace }
        from   == First(starts)
        stops  == { i \in from..Len(s) : s[i] \in Whitespace }
        to     == IF stops = {} THEN Len(s) + 1 ELSE First(stops)
    IN  IF starts = {} THEN << >>
        ELSE << SubSeq(s, from, to - 1) >> \o split_ws_scan(s, to)

split_ws(s) ==
    split_ws_scan(s, 1)

\* The set of characters of a string.
CharsOf(chars) ==
    { chars[k] : k \in 1..Len(chars) }

\* s.removeprefix(prefix): drops one leading occurrence of prefix, if any.
removeprefix(s, prefix) ==
    IF startswith(s, prefix) THEN SubSeq(s, Len(prefix) + 1, Len(s)) ELSE s

\* s.strip(chars): drops from both ends every character that occurs in chars.
strip(s, chars) ==
    LET set   == CharsOf(chars)
        keep  == { i \in 1..Len(s) : s[i] \notin set }
        first == CHOOSE i \in keep : \A j \in keep : i <= j
        last  == CHOOSE i \in keep : \A j \in keep : j <= i
    IN  IF keep = {} THEN << >> ELSE SubSeq(s, first, last)

\* open(path) reads in text mode with universal newlines: '\r\n' and a lone
\* '\r' both reach the program as '\n'.
universal_newlines(data) ==
    LET marked == [i \in 1..Len(data) |->
                      IF data[i] = "\r" THEN "\n"
                      ELSE IF data[i] = "\n" /\ i > 1 /\ data[i - 1] = "\r" THEN ""
                      ELSE data[i]]
    IN  SelectSeq(marked, LAMBDA c : c # "")

\* The lines of a text, each with its terminating newline; the last line has
\* none when the text does not end with one.
RECURSIVE readlines_scan(_, _)
readlines_scan(text, b) ==
    LET i == find(text, << "\n" >>, b)
    IN  IF b > Len(text) THEN << >>
        ELSE IF i = 0 THEN << SubSeq(text, b, Len(text)) >>
        ELSE << SubSeq(text, b, i) >> \o readlines_scan(text, i + 1)

\* open(path).readlines() on a file with the contents data.
readlines(data) ==
    readlines_scan(universal_newlines(data), 1)

DigitValue(c) ==
    CASE c = "0" -> 0 [] c = "1" -> 1 [] c = "2" -> 2 [] c = "3" -> 3 [] c = "4" -> 4
      [] c = "5" -> 5 [] c = "6" -> 6 [] c = "7" -> 7 [] c = "8" -> 8 [] c = "9" -> 9

DigitChar(d) ==
    << "0","1","2","3","4","5","6","7","8","9" >>[d + 1]

\* int(s) raises ValueError: s is not a non-empty run of decimal digits, or
\* it is longer than the interpreter's limit for the conversion (4300 digits,
\* CPython 3.11).
int_raises(s) ==
    \/ Len(s) = 0
    \/ \E i \in 1..Len(s) : s[i] \notin Digits
    \/ Len(s) > 4300

\* int(s) for a run of decimal digits (leading zeros carry no value).
RECURSIVE int(_)
int(s) ==
    IF Len(s) = 0 THEN 0
    ELSE 10 * int(SubSeq(s, 1, Len(s) - 1)) + DigitValue(s[Len(s)])

\* f"{port}": decimal, without leading zeros.
RECURSIVE str(_)
str(port) ==
    IF port < 10 THEN << DigitChar(port) >>
    ELSE str(port \div 10) \o << DigitChar(port % 10) >>

\* The end of the longest run of class characters of s that starts at i.
RunEnd(s, i, e) ==
    LET stops == { j \in i..Len(s) : (s[j] \in e.set) = e.neg }
    IN  IF stops = {} THEN Len(s) + 1 ELSE First(stops)

NoMatch ==
    [ok |-> FALSE, groups |-> << >>]

\* re.match(regex, s): the match is anchored at the start of s and need not
\* reach its end.  Every repeated class of the pattern is followed by a
\* character outside the class (or ends the pattern), so the greedy run is the
\* only candidate and no backtracking is needed.
RECURSIVE match_from(_, _, _, _, _)
match_from(regex, k, s, i, groups) ==
    IF k > Len(regex) THEN [ok |-> TRUE, groups |-> groups]
    ELSE LET e == regex[k] IN
         CASE e.kind = "lit" ->
                IF i <= Len(s) /\ s[i] \in e.set
                THEN match_from(regex, k + 1, s, i + 1, groups)
                ELSE NoMatch
           [] e.kind = "opt" ->
                IF i <= Len(s) /\ s[i] \in e.set
                THEN match_from(regex, k + 1, s, i + 1, groups)
                ELSE match_from(regex, k + 1, s, i, groups)
           [] OTHER ->
                LET j == RunEnd(s, i, e) IN
                IF e.kind = "plus" /\ j = i THEN NoMatch
                ELSE match_from(regex, k + 1, s, j,
                                IF e.group = "" THEN groups
                                ELSE (e.group :> SubSeq(s, i, j - 1)) @@ groups)

re_match(regex, s) ==
    match_from(regex, 1, s, 1, << >>)

-----------------------------------------------------------------------------
(* The functions of main.py *)

\* _get_host raises IndexError: the line has fewer than two tokens.
get_host_raises(host_line) ==
    Len(split_ws(host_line)) < 2

\* _get_host: host_line.split()[1]
get_host(host_line) ==
    split_ws(host_line)[2]

\* _get_ports_info, the inner loop's iterable:
\* part.strip(_PORTS_PREFIX).split(_PORT_INFO_SEPARATOR)
port_infos_of(part) ==
    split(strip(part, PORTS_PREFIX), PORT_INFO_SEPARATOR)

\* _get_ports_info, the fragments the two loops visit, in order.
RECURSIVE port_infos_from(_, _)
port_infos_from(parts, k) ==
    IF k > Len(parts) THEN << >>
    ELSE (IF startswith(parts[k], PORTS_PREFIX) THEN port_infos_of(parts[k]) ELSE << >>)
         \o port_infos_from(parts, k + 1)

port_infos(ports_line) ==
    port_infos_from(split(ports_line, FIELD_SEPARATOR), 1)

\* _get_ports_info, the body of the inner loop: the list after one fragment,
\* or the ValueError of int().
RECURSIVE get_ports_info_loop(_, _, _)
get_ports_info_loop(frags, k, acc) ==
    IF k > Len(frags) THEN [raised |-> FALSE, value |-> acc]
    ELSE LET matches == re_match(PORT_INFO_REGEX, frags[k]) IN
         IF ~matches.ok THEN get_ports_info_loop(frags, k + 1, acc)
         ELSE IF int_raises(matches.groups["port"])
              THEN [raised |-> TRUE, value |-> acc]
              ELSE get_ports_info_loop(frags, k + 1,
                       Append(acc, << int(matches.groups["port"]),
                                      matches.groups["state"],
                                      matches.groups["protocol"],
                                      matches.groups["service"] >>))

\* _get_ports_info: the (port, state, protocol, service) tuples of a line.
get_ports_info(ports_line) ==
    get_ports_info_loop(port_infos(ports_line), 1, << >>)

\* The mutant of the service map: a repeated service replaces its list.
RECURSIVE build_service_map_overwrite(_)
build_service_map_overwrite(infos) ==
    IF Len(infos) = 0 THEN << >>
    ELSE LET map     == build_service_map_overwrite(SubSeq(infos, 1, Len(infos) - 1))
             port    == infos[Len(infos)][1]
             service == infos[Len(infos)][4]
         IN  IF \E j \in 1..Len(map) : map[j].service = service
             THEN [j \in 1..Len(map) |->
                      IF map[j].service = service
                      THEN [map[j] EXCEPT !.ports = << port >>] ELSE map[j]]
             ELSE Append(map, [service |-> service, ports |-> << port >>])

\* The mutant of the service map: a service seen again moves to the end.
RECURSIVE build_service_map_reinsert(_)
build_service_map_reinsert(infos) ==
    IF Len(infos) = 0 THEN << >>
    ELSE LET map     == build_service_map_reinsert(SubSeq(infos, 1, Len(infos) - 1))
             port    == infos[Len(infos)][1]
             service == infos[Len(infos)][4]
             others  == SelectSeq(map, LAMBDA e : e.service # service)
             mine    == SelectSeq(map, LAMBDA e : e.service = service)
         IN  Append(others,
                    [service |-> service,
                     ports   |-> (IF Len(mine) = 0 THEN << >> ELSE mine[1].ports)
                                 \o << port >>])

\* _build_service_map: the dict, as the sequence of its items in insertion
\* order; a service enters at its first record and its ports are appended.
RECURSIVE build_service_map(_)
build_service_map(infos) ==
    IF Len(infos) = 0 THEN << >>
    ELSE LET map     == build_service_map(SubSeq(infos, 1, Len(infos) - 1))
             port    == infos[Len(infos)][1]
             service == infos[Len(infos)][4]
             keyed   == IF \E j \in 1..Len(map) : map[j].service = service
                        THEN map
                        ELSE Append(map, [service |-> service, ports |-> << >>])
         IN  [j \in 1..Len(keyed) |->
                 IF keyed[j].service = service
                 THEN [keyed[j] EXCEPT !.ports = Append(@, port)] ELSE keyed[j]]

\* The mutant of the filter: the service name has to begin with the substring.
RECURSIVE get_ports_for_service_substr_prefix(_, _)
get_ports_for_service_substr_prefix(substr, map) ==
    IF Len(map) = 0 THEN << >>
    ELSE get_ports_for_service_substr_prefix(substr, SubSeq(map, 1, Len(map) - 1))
         \o (IF startswith(map[Len(map)].service, substr)
             THEN map[Len(map)].ports ELSE << >>)

\* _get_ports_for_service_substr: the ports of the services whose name
\* contains the substring, in the order of the dict's items.
RECURSIVE get_ports_for_service_substr(_, _)
get_ports_for_service_substr(substr, map) ==
    IF Len(map) = 0 THEN << >>
    ELSE get_ports_for_service_substr(substr, SubSeq(map, 1, Len(map) - 1))
         \o (IF contains(substr, map[Len(map)].service)
             THEN map[Len(map)].ports ELSE << >>)

\* _build_output: f"{host}:{port}" for each port.
build_output(h, ports) ==
    [k \in 1..Len(ports) |-> h \o << ":" >> \o str(ports[k])]

-----------------------------------------------------------------------------
(* The inputs: the text of the file and the substring *)

MaxFrags == 2

MaxPieces == 3

MaxLines == 2

\* '80/open/tcp//http///'
FragHttp ==
    <<"8","0","/","o","p","e","n","/","t","c","p","/","/","h","t","t","p","/","/","/">>

\* '22/open/tcp//ssh///'
FragSsh ==
    <<"2","2","/","o","p","e","n","/","t","c","p","/","/","s","s","h","/","/","/">>

\* '0443/closed/udp/o/http-alt/r/v/x,': a leading zero, every field filled
FragRich ==
    <<"0","4","4","3","/","c","l","o","s","e","d","/","u","d","p","/","o","/","h","t","t","p","-","a","l","t","/","r","/","v","/","x",",">>

\* '8a/open/tcp//http///': the port field is no decimal number
FragBadPort ==
    <<"8","a","/","o","p","e","n","/","t","c","p","/","/","h","t","t","p","/","/","/">>

\* '443/open/tcp//https': too few fields
FragShort ==
    <<"4","4","3","/","o","p","e","n","/","t","c","p","/","/","h","t","t","p","s">>

FragPool ==
    {FragHttp, FragSsh, FragRich, FragBadPort, FragShort}

\* 'Host: a ()'
HostField ==
    <<"H","o","s","t",":"," ","a"," ","(",")">>

\* What stands between 'Ports: ' and the first fragment, and after the last.
Shapes ==
    { [lead |-> << >>,      trail |-> << >>],
      [lead |-> << " " >>,  trail |-> << >>],
      [lead |-> << "s" >>,  trail |-> << >>],
      [lead |-> << >>,      trail |-> << "s" >>],
      [lead |-> << >>,      trail |-> << ",", " " >>] }

SeqsUpTo(S, k) ==
    UNION { [1..m -> S] : m \in 0..k }

\* sep.join(items)
RECURSIVE join(_, _)
join(items, sep) ==
    IF Len(items) = 0 THEN << >>
    ELSE IF Len(items) = 1 THEN items[1]
    ELSE items[1] \o sep \o join(Tail(items), sep)

\* Host lines with up to MaxFrags port fragments.
GeneratedLines ==
    { HostField \o FIELD_SEPARATOR \o PORTS_PREFIX \o sh.lead
        \o join(fs, PORT_INFO_SEPARATOR) \o sh.trail :
      fs \in SeqsUpTo(FragPool, MaxFrags), sh \in Shapes }

\* Lines made of up to MaxPieces markers and separators, in any order.
PiecePool ==
    {HOST_PREFIX, PORTS_PREFIX, << "\t" >>, << "a" >>, << "\f" >>, << "\r" >>}

FreeLines ==
    { join(ps, << >>) : ps \in SeqsUpTo(PiecePool, MaxPieces) }

\* '# Nmap 7.80 scan'
LineComment ==
    <<"#"," ","N","m","a","p"," ","7",".","8","0"," ","s","c","a","n">>

\* 'Host: 10.0.0.5 ()\tStatus: Up'
LineStatus ==
    <<"H","o","s","t",":"," ","1","0",".","0",".","0",".","5"," ","(",")","\t","S","t","a","t","u","s",":"," ","U","p">>

\* 'Host: 10.0.0.5 ()\tPorts: 80/open/tcp//http///, 22/open/tcp//ssh///\tIgnored: ...'
LineExample ==
    <<"H","o","s","t",":"," ","1","0",".","0",".","0",".","5"," ","(",")","\t","P","o","r","t","s",":"," ","8","0","/","o","p","e","n","/","t","c","p","/","/","h","t","t","p","/","/","/",","," ","2","2","/","o","p","e","n","/","t","c","p","/","/","s","s","h","/","/","/","\t","I","g","n","o","r","e","d",":"," ",".",".",".">>

\* 'Host: b ()\tPorts: 443/open/tcp//https///, 22/open/tcp//ssh///, 8443/open/tcp//https///':
\* two services, interleaved
LineInterleaved ==
    <<"H","o","s","t",":"," ","b"," ","(",")","\t","P","o","r","t","s",":"," ","4","4","3","/","o","p","e","n","/","t","c","p","/","/","h","t","t","p","s","/","/","/",","," ","2","2","/","o","p","e","n","/","t","c","p","/","/","s","s","h","/","/","/",","," ","8","4","4","3","/","o","p","e","n","/","t","c","p","/","/","h","t","t","p","s","/","/","/">>

\* 'Host: c ()\tPorts: '
LineNoPorts ==
    <<"H","o","s","t",":"," ","c"," ","(",")","\t","P","o","r","t","s",":"," ">>

\* 'Ports: 80/open/tcp//http///'
LinePortsOnly ==
    <<"P","o","r","t","s",":"," ","8","0","/","o","p","e","n","/","t","c","p","/","/","h","t","t","p","/","/","/">>

LinePool ==
    {LineComment, LineStatus, LineExample, LineInterleaved, LineNoPorts, LinePortsOnly}

\* The contents of a file whose lines each end with the terminator eol.
RECURSIVE TextOf(_, _)
TextOf(lines, eol) ==
    IF Len(lines) = 0 THEN << >>
    ELSE lines[1] \o eol \o TextOf(Tail(lines), eol)

\* The line ends of a file: '\n' and '\r\n'.
LineEnds ==
    { << "\n" >>, << "\r", "\n" >> }

\* One generated line; one free line without a final newline; up to MaxLines
\* lines of the pool, with either line end.
InputFiles ==
    { TextOf(<< l >>, << "\n" >>) : l \in GeneratedLines }
    \cup FreeLines
    \cup { TextOf(ls, eol) : ls \in SeqsUpTo(LinePool, MaxLines), eol \in LineEnds }

\* The exceptions of open(path) and of reading: no such file, and contents
\* that are no text in the encoding.
OpenErrors ==
    { "FileNotFoundError", "UnicodeDecodeError" }

Substrs ==
    { << >>, << "h" >>, << "h","t","t","p" >>, << "f","t","p" >> }

-----------------------------------------------------------------------------
(* The run of _parse_and_print *)

Init ==
    /\ pc = "start"
    /\ \/ open_raises = "none" /\ nmap_out \in InputFiles
       \/ open_raises \in OpenErrors /\ nmap_out = << >>
    /\ service_substr \in Substrs
    /\ host_ports_lines = << >>
    /\ n = 0
    /\ host = << >>
    /\ ports_info = << >>
    /\ service_map = << >>
    /\ service_ports = << >>
    /\ output = << >>
    /\ host_with_ports = << >>
    /\ warned = FALSE
    /\ printed = << >>

\* The mutants of the line selector: one marker is enough; the ports marker
\* alone decides.
is_host_ports_line_either(line) ==
    contains(HOST_PREFIX, line) \/ contains(PORTS_PREFIX, line)

is_host_ports_line_ports_only(line) ==
    contains(PORTS_PREFIX, line)

\* _parse_and_print: _HOST_PREFIX in line and _PORTS_PREFIX in line
is_host_ports_line(line) ==
    contains(HOST_PREFIX, line) /\ contains(PORTS_PREFIX, line)

\* _parse_and_print, up to logging.fatal: the lines are read and selected;
\* logging.fatal ends the process, and so does an exception of open() or of
\* readlines(), before any line is selected.
ReadInput ==
    /\ pc = "start"
    /\ LET lines == SelectSeq(readlines(nmap_out), is_host_ports_line)
       IN  IF open_raises # "none"
           THEN /\ pc' = open_raises
                /\ UNCHANGED host_ports_lines
           ELSE /\ host_ports_lines' = lines
                /\ pc' = IF lines = << >> THEN "fatal" ELSE "parse"
    /\ UNCHANGED <<nmap_out, open_raises, service_substr, n, host, ports_info, service_map,
                   service_ports, output, host_with_ports, warned, printed>>

\* _get_hosts_with_ports: one iteration of the loop over the selected lines.
\* An IndexError of _get_host or a ValueError of int() ends the process.
ParseLine ==
    /\ pc = "parse"
    /\ n < Len(host_ports_lines)
    /\ LET host_ports_line == host_ports_lines[n + 1]
           info            == get_ports_info(host_ports_line)
           map             == build_service_map(info.value)
           ports           == get_ports_for_service_substr(service_substr, map)
           lines           == build_output(get_host(host_ports_line), ports)
       IN  IF get_host_raises(host_ports_line)
           THEN /\ pc' = "IndexError"
                /\ UNCHANGED <<n, host, ports_info, service_map, service_ports,
                               output, host_with_ports>>
           ELSE IF info.raised
           THEN /\ pc' = "ValueError"
                /\ host' = get_host(host_ports_line)
                /\ UNCHANGED <<n, ports_info, service_map, service_ports,
                               output, host_with_ports>>
           ELSE /\ host' = get_host(host_ports_line)
                /\ ports_info' = info.value
                /\ service_map' = map
                /\ service_ports' = ports
                /\ output' = lines
                /\ host_with_ports' = host_with_ports \o lines
                /\ n' = n + 1
                /\ pc' = IF n + 1 = Len(host_ports_lines) THEN "report" ELSE "parse"
    /\ UNCHANGED <<nmap_out, open_raises, service_substr, host_ports_lines, warned, printed>>

\* The mutant of Report: the empty result is not reported.
ReportSilent ==
    /\ pc = "report"
    /\ warned' = FALSE
    /\ pc' = IF host_with_ports = << >> THEN "done" ELSE "print"
    /\ UNCHANGED <<nmap_out, open_raises, service_substr, host_ports_lines, n, host, ports_info,
                   service_map, service_ports, output, host_with_ports, printed>>

\* _parse_and_print: the warning for an empty result.
Report ==
    /\ pc = "report"
    /\ warned' = (host_with_ports = << >>)
    /\ pc' = IF host_with_ports = << >> THEN "done" ELSE "print"
    /\ UNCHANGED <<nmap_out, open_raises, service_substr, host_ports_lines, n, host, ports_info,
                   service_map, service_ports, output, host_with_ports, printed>>

\* The mutant of PrintLine: the loop ends after its first line.
PrintLineOnce ==
    /\ pc = "print"
    /\ printed' = Append(printed, host_with_ports[Len(printed) + 1])
    /\ pc' = "done"
    /\ UNCHANGED <<nmap_out, open_raises, service_substr, host_ports_lines, n, host, ports_info,
                   service_map, service_ports, output, host_with_ports, warned>>

\* _parse_and_print: one iteration of the loop that prints the result.
PrintLine ==
    /\ pc = "print"
    /\ printed' = Append(printed, host_with_ports[Len(printed) + 1])
    /\ pc' = IF Len(printed) + 1 = Len(host_with_ports) THEN "done" ELSE "print"
    /\ UNCHANGED <<nmap_out, open_raises, service_substr, host_ports_lines, n, host, ports_info,
                   service_map, service_ports, output, host_with_ports, warned>>

Next ==
    \/ ReadInput
    \/ ParseLine
    \/ Report
    \/ PrintLine

Spec ==
    Init /\ [][Next]_vars

\* The ways the run ends with an uncaught exception.
Raised ==
    {"IndexError", "ValueError"} \cup OpenErrors

Terminated ==
    pc \in {"done", "fatal"} \cup Raised

TypeOK ==
    /\ pc \in {"start", "parse", "report", "print", "done", "fatal"} \cup Raised
    /\ open_raises \in {"none"} \cup OpenErrors
    /\ n \in 0..Len(host_ports_lines)
    /\ warned \in BOOLEAN

-----------------------------------------------------------------------------
(* Reference definitions the properties are stated with *)

\* The lines of the file that contain both markers.
HasBothMarkers(line) ==
    contains(HOST_PREFIX, line) /\ contains(PORTS_PREFIX, line)

QualifyingLines ==
    SelectSeq(readlines(nmap_out), HasBothMarkers)

\* The line the last iteration of _get_hosts_with_ports worked on.
LastLine ==
    host_ports_lines[n]

\* The records whose service name contains the substring.
MatchingRecords(infos, substr) ==
    { k \in 1..Len(infos) : contains(substr, infos[k][4]) }

\* The ports of the records of one service, in record order.
RECURSIVE PortsOfService(_, _)
PortsOfService(infos, service) ==
    IF Len(infos) = 0 THEN << >>
    ELSE (IF infos[1][4] = service THEN << infos[1][1] >> ELSE << >>)
         \o PortsOfService(Tail(infos), service)

\* For each service that matches, at the record where it is first seen, all
\* of its ports.
RECURSIVE PortsByFirstSeen(_, _, _)
PortsByFirstSeen(infos, substr, k) ==
    IF k > Len(infos) THEN << >>
    ELSE (IF /\ \A j \in 1..(k - 1) : infos[j][4] # infos[k][4]
             /\ contains(substr, infos[k][4])
          THEN PortsOfService(infos, infos[k][4]) ELSE << >>)
         \o PortsByFirstSeen(infos, substr, k + 1)

\* The ports of the matching records in record order.
RECURSIVE PortsInRecordOrder(_, _)
PortsInRecordOrder(infos, substr) ==
    IF Len(infos) = 0 THEN << >>
    ELSE (IF contains(substr, infos[1][4]) THEN << infos[1][1] >> ELSE << >>)
         \o PortsInRecordOrder(Tail(infos), substr)

\* The slash-delimited fields of a fragment.
FieldsOf(frag) ==
    split(frag, << "/" >>)

\* A fragment with the seven slashes of the pattern, and one whose port field
\* is a decimal number as well.
HasAllFields(frag) ==
    Len(FieldsOf(frag)) >= 8

HasDecimalPort(frag) ==
    LET port == FieldsOf(frag)[1]
    IN  Len(port) > 0 /\ \A i \in 1..Len(port) : port[i] \in Digits

MalformedPort(frag) ==
    HasAllFields(frag) /\ ~HasDecimalPort(frag)

\* The fragments of a line by the reference: of each tab-delimited segment
\* that begins with 'Ports: ', one leading 'Ports: ' is removed and the rest
\* is split on ', '.
RECURSIVE ReferenceFragmentsFrom(_, _)
ReferenceFragmentsFrom(parts, k) ==
    IF k > Len(parts) THEN << >>
    ELSE (IF startswith(parts[k], PORTS_PREFIX)
          THEN split(removeprefix(parts[k], PORTS_PREFIX), PORT_INFO_SEPARATOR)
          ELSE << >>)
         \o ReferenceFragmentsFrom(parts, k + 1)

ReferenceFragments(line) ==
    ReferenceFragmentsFrom(split(line, FIELD_SEPARATOR), 1)

\* The record of each fragment that has all fields and a decimal port, read
\* off its slash-delimited fields.
RECURSIVE RecordsByFields(_)
RecordsByFields(frags) ==
    IF Len(frags) = 0 THEN << >>
    ELSE (IF HasAllFields(frags[1]) /\ HasDecimalPort(frags[1])
          THEN LET f == FieldsOf(frags[1])
               IN  << << int(f[1]), f[2], f[3], f[5] >> >>
          ELSE << >>)
         \o RecordsByFields(Tail(frags))

\* The output of a whole run: the output of each selected line, in file order.
RECURSIVE ExpectedOutput(_)
ExpectedOutput(lines) ==
    IF Len(lines) = 0 THEN << >>
    ELSE build_output(get_host(lines[1]),
                      get_ports_for_service_substr(service_substr,
                          build_service_map(get_ports_info(lines[1]).value)))
         \o ExpectedOutput(Tail(lines))

IsPrefixOf(a, b) ==
    Len(a) <= Len(b) /\ \A k \in 1..Len(a) : a[k] = b[k]

\* A line qualifies and no record of any qualifying line has a service name
\* that contains the substring.
NoRecordMatches ==
    LET lines == QualifyingLines
    IN  /\ lines # << >>
        /\ \A k \in 1..Len(lines) :
               MatchingRecords(get_ports_info(lines[k]).value, service_substr) = {}

\* The file and the substring of the end-to-end example.
ExampleRun ==
    /\ open_raises = "none"
    /\ nmap_out = TextOf(<< LineExample >>, << "\n" >>)
    /\ service_substr = << "h" >>

-----------------------------------------------------------------------------
(* The properties *)

\* C1: for every processed line, the number of host:port lines built for it
\* equals the number of port records extracted from the line whose service
\* name contains the substring.
C1_OutputCount ==
    n > 0 =>
        /\ ports_info = get_ports_info(LastLine).value
        /\ Len(output) = Cardinality(MatchingRecords(ports_info, service_substr))

\* C1 witness: a line where one service holds two ports, some records match
\* and some do not.
C1_Witness ==
    /\ n > 0
    /\ Len(service_map) < Len(ports_info)
    /\ Len(output) >= 2
    /\ Len(output) < Len(ports_info)

\* C2: the filter returns the port lists of exactly the matching services,
\* services in first-seen order of the records, ports in append order.
C2_FirstSeenOrder ==
    n > 0 => service_ports = PortsByFirstSeen(ports_info, service_substr, 1)

\* C2 witness: two matching services interleaved on the line, so that the
\* result is not the record order.
C2_Witness ==
    /\ n > 0
    /\ Len(service_ports) >= 3
    /\ service_ports # PortsInRecordOrder(ports_info, service_substr)

\* C3 as stated: a fragment with a malformed port number makes the run fail
\* with a parse error, so no line holding one is ever processed to the end.
C3_MalformedPortFails ==
    \A k \in 1..n :
        LET frags == port_infos(host_ports_lines[k])
        IN  \A j \in 1..Len(frags) : ~MalformedPort(frags[j])

\* C3 amended: a fragment handed to the pattern whose port field is not a
\* non-empty run of decimal digits does not match and is skipped: it yields
\* no record and does not end the run.  int() is reached with runs of decimal
\* digits alone, so a parse error can only come from a run of digits that is
\* too long for the conversion.
C3_MalformedPortSkipped ==
    /\ n > 0 =>
          LET frags == port_infos(LastLine)
          IN  Len(ports_info) =
                  Cardinality({ j \in 1..Len(frags) :
                                  HasAllFields(frags[j]) /\ HasDecimalPort(frags[j]) })
    /\ pc = "ValueError" =>
          LET frags == port_infos(host_ports_lines[n + 1])
          IN  \E j \in 1..Len(frags) :
                  /\ HasAllFields(frags[j])
                  /\ HasDecimalPort(frags[j])
                  /\ int_raises(FieldsOf(frags[j])[1])

\* C3 witness: a run that ended normally and printed the ports of a line that
\* holds a fragment with a malformed port.
C3_Witness ==
    /\ pc = "done"
    /\ printed # << >>
    /\ LET frags == port_infos(LastLine)
       IN  \E j \in 1..Len(frags) : MalformedPort(frags[j])

\* C4: once the file is read, the run ends fatally exactly when no line of the
\* file contains both markers; a fatal run has written nothing and takes no
\* further step.
C4_FatalIffNoQualifyingLine ==
    /\ []((pc # "start" /\ open_raises = "none")
             => ((pc = "fatal") <=> (QualifyingLines = << >>)))
    /\ [](pc = "fatal" => printed = << >>)
    /\ [][pc # "fatal"]_vars

\* C4 witness: a fatal run on a file that holds both markers, on different
\* lines.
C4_Witness ==
    /\ pc = "fatal"
    /\ contains(HOST_PREFIX, nmap_out)
    /\ contains(PORTS_PREFIX, nmap_out)

\* C5 as stated: with the substring "h" the example prints 10.0.0.5:80 alone.
C5_ExampleOneLine ==
    (ExampleRun /\ pc = "done") =>
        printed = << <<"1","0",".","0",".","0",".","5",":","8","0">> >>

\* C5 amended: "h" is contained in http and in ssh, and the example prints
\* 10.0.0.5:80 and 10.0.0.5:22, in this order.
C5_ExampleTwoLines ==
    ExampleRun =>
        /\ pc \notin {"fatal"} \cup Raised
        /\ pc = "done" =>
              /\ { service_map[k].service : k \in 1..Len(service_map) }
                   = { <<"h","t","t","p">>, <<"s","s","h">> }
              /\ \A k \in 1..Len(service_map) :
                     contains(service_substr, service_map[k].service)
              /\ printed = << <<"1","0",".","0",".","0",".","5",":","8","0">>,
                              <<"1","0",".","0",".","0",".","5",":","2","2">> >>

\* C5 witness: the example run has ended.
C5_Witness ==
    ExampleRun /\ pc = "done"

\* C6 as stated: the records of a line are those of its fragments that match
\* the pattern, one each, in order, with the fragment's port, state, protocol
\* and service; the other fragments give no record.
C6_RecordsOfMatchingFragments ==
    n > 0 => ports_info = RecordsByFields(ReferenceFragments(LastLine))

\* C7: with a qualifying line and no matching record the run prints nothing,
\* warns and ends normally; the warning is given exactly for an empty result.
C7_WarningIffEmpty ==
    /\ pc \in {"print", "done"} => (warned <=> (host_with_ports = << >>))
    /\ pc \in {"start", "parse", "report", "fatal"} \cup Raised => ~warned
    /\ warned => (pc = "done" /\ printed = << >>)
    /\ NoRecordMatches
       => /\ pc \notin {"fatal"} \cup Raised
          /\ printed = << >>
          /\ pc = "done" => warned
          /\ pc = "parse" => n < Len(host_ports_lines)
          /\ pc # "print"

\* C7 witness: a run that warned although the line had port records.
C7_Witness ==
    /\ pc = "done"
    /\ warned
    /\ ports_info # << >>

\* C8: nothing is written before every selected line is processed; a run that
\* ends fatally or in an error has written nothing; what is written is a
\* prefix of the output of the selected lines in file order, and all of it
\* once the run is done.
C8_NoPartialOutput ==
    /\ printed # << >> => (pc \in {"print", "done"} /\ n = Len(host_ports_lines))
    /\ pc \in {"fatal"} \cup Raised => printed = << >>
    /\ printed # << >> => IsPrefixOf(printed, ExpectedOutput(QualifyingLines))
    /\ pc = "done" => printed = ExpectedOutput(QualifyingLines)
    /\ pc = "print" => Len(printed) < Len(host_with_ports)

\* C8 witness: a finished run over two selected lines that wrote three lines
\* or more.
C8_Witness ==
    /\ pc = "done"
    /\ Len(host_ports_lines) = 2
    /\ Len(printed) >= 3

\* C9: every line with both markers has two tokens or more, so _get_host
\* returns a non-empty token and never raises for a selected line.
C9_HostNeverFails ==
    /\ pc # "IndexError"
    /\ \A k \in 1..Len(host_ports_lines) :
           /\ ~get_host_raises(host_ports_lines[k])
           /\ Len(get_host(host_ports_lines[k])) > 0

\* C9 witness: a processed line that has exactly two tokens.
C9_Witness ==
    /\ n > 0
    /\ Len(split_ws(LastLine)) = 2

\* C10 as stated: the records of a line are those of the reference, which
\* removes one leading 'Ports: ' and nothing else before it splits and matches.
C10_SameAsReference ==
    n > 0 =>
        ports_info = get_ports_info_loop(ReferenceFragments(LastLine), 1, << >>).value

====
